---- MODULE Spec2Model ----
(***************************************************************************)
(* aio_lambda_api: the Handler of core.py (route registration, dispatch of *)
(* one Lambda event, envelope construction) and the HTTPException of       *)
(* exceptions.py, as a state machine.                                      *)
(*                                                                         *)
(* Python values are tagged records [t |-> <type>, v |-> <payload>]; a str *)
(* is a sequence of code points, bytes a sequence of octets.  Dictionaries *)
(* whose keys are identifiers of the program (event, headers, log) are     *)
(* TLA+ functions over strings; dictionaries of Python values (JSON        *)
(* bodies, keyword arguments) are sequences of <<key, value>> pairs, in    *)
(* insertion order.                                                        *)
(***************************************************************************)
EXTENDS Integers, Sequences, FiniteSets, TLC

VARIABLES
    routes,              \* Handler._routes: path -> method -> route
    validate_arguments,  \* whether pydantic.validate_arguments was imported
    declared,            \* the status_code argument each route was registered with
    result,              \* what the operation in progress hands to its caller
    pc,                  \* where the thread that uses the handler is in its code
    invocation,          \* the invocations started so far and the event of the current one
    scopes,              \* the logging scopes that are open, by invocation
    loop,                \* Handler._loop: the tasks it was given that are not done
    exit_stack,          \* Handler._exit_stack: the async contexts it will exit
    contexts,            \* each async context manager: its state, how often it was exited
    teardown             \* what Handler.__del__ raised, once the handler is deleted

\* The variables of the step by step view of the handler.
lifecycle == <<pc, invocation, scopes, loop, exit_stack, contexts, teardown>>

vars == <<routes, validate_arguments, declared, result,
          pc, invocation, scopes, loop, exit_stack, contexts, teardown>>

----------------------------------------------------------------------------
(* Bounds of the model.                                                    *)

\* At most this many routes are registered in one run.
MaxRoutes == 2

\* At most this many invocations are followed step by step in one run.
MaxInvocations == 2

----------------------------------------------------------------------------
(* Python values.                                                          *)

None == [t |-> "None"]
Str(s) == [t |-> "str", v |-> s]
Bytes(b) == [t |-> "bytes", v |-> b]
IntV(n) == [t |-> "int", v |-> n]
Dict(pairs) == [t |-> "dict", v |-> pairs]
List(items) == [t |-> "list", v |-> items]

IsNone(x) == x.t = "None"

\* Python truth value of the values the model uses.
Truthy(x) ==
    CASE x.t = "None" -> FALSE
      [] x.t = "str" -> Len(x.v) > 0
      [] x.t = "bytes" -> Len(x.v) > 0
      [] x.t = "int" -> x.v # 0
      [] x.t = "dict" -> Len(x.v) > 0
      [] x.t = "list" -> Len(x.v) > 0
      [] OTHER -> TRUE

\* d with d[k] = v, as a dict assignment does (dictionaries keyed by identifiers).
SetItem(d, k, v) == [x \in (DOMAIN d) \cup {k} |-> IF x = k THEN v ELSE d[x]]

EmptyDict == [x \in {} |-> None]

\* Dictionaries as sequences of <<key, value>> pairs, in insertion order.
DictKeys(pairs) == {pairs[i][1] : i \in DOMAIN pairs}

DictGet(pairs, k) == pairs[CHOOSE i \in DOMAIN pairs : pairs[i][1] = k][2]

DictSet(pairs, k, v) ==
    IF k \in DictKeys(pairs)
    THEN [i \in DOMAIN pairs |-> IF pairs[i][1] = k THEN <<k, v>> ELSE pairs[i]]
    ELSE Append(pairs, <<k, v>>)

\* String literals of the program and of its inputs, as code points.
TxtNotFound == <<78, 111, 116, 32, 70, 111, 117, 110, 100>>
TxtMethodNotAllowed ==
    <<77, 101, 116, 104, 111, 100, 32, 78, 111, 116, 32, 65, 108, 108, 111, 119, 101, 100>>
TxtBadRequest == <<66, 97, 100, 32, 82, 101, 113, 117, 101, 115, 116>>
TxtUnauthorized == <<85, 110, 97, 117, 116, 104, 111, 114, 105, 122, 101, 100>>
TxtServiceUnavailable ==
    <<83, 101, 114, 118, 105, 99, 101, 32, 85, 110, 97, 118, 97, 105, 108, 97, 98, 108, 101>>
TxtOK == <<79, 75>>
TxtAccepted == <<65, 99, 99, 101, 112, 116, 101, 100>>
TxtDetail == <<100, 101, 116, 97, 105, 108>>
TxtDetails == <<100, 101, 116, 97, 105, 108, 115>>
TxtLoc == <<108, 111, 99>>
TxtType == <<116, 121, 112, 101>>
TxtValue == <<118, 97, 108, 117, 101>>
TxtGet == <<103, 101, 116>>
TxtCustom == <<67, 117, 115, 116, 111, 109>>
TxtRequest == <<114, 101, 113, 117, 101, 115, 116>>
TxtResponse == <<114, 101, 115, 112, 111, 110, 115, 101>>
TxtTest == <<116, 101, 115, 116>>
TxtJson == <<97, 112, 112, 108, 105, 99, 97, 116, 105, 111, 110, 47, 106, 115, 111, 110>>
TxtOctetStream ==
    <<97, 112, 112, 108, 105, 99, 97, 116, 105, 111, 110, 47, 111, 99, 116, 101, 116,
      45, 115, 116, 114, 101, 97, 109>>
TxtPlain == <<116, 101, 120, 116, 47, 112, 108, 97, 105, 110>>
TxtTraceback == <<84, 114, 97, 99, 101, 98, 97, 99, 107>>
TxtUnprocessable ==
    <<85, 110, 112, 114, 111, 99, 101, 115, 115, 97, 98, 108, 101, 32, 69, 110, 116,
      105, 116, 121>>
TxtRid1 == <<114, 49>>
TxtRid2 == <<114, 50>>
TxtAgent == <<117, 97>>
TxtSecret == <<115, 101, 99, 114, 101, 116>>
TxtMissing == <<109, 105, 115, 115, 105, 110, 103>>
TxtExtra == <<101, 120, 116, 114, 97>>
TxtInteger == <<105, 110, 116, 101, 103, 101, 114>>
\* "e" with an acute accent, U+00E9: one character, two octets in UTF-8.
TxtEAcute == <<233>>

----------------------------------------------------------------------------
(* Conversions: str(int), UTF-8, JSON, base64.                             *)

RECURSIVE Digits(_)
Digits(n) == IF n < 10 THEN <<48 + n>> ELSE Digits(n \div 10) \o <<48 + (n % 10)>>

\* str(n) of an integer.
IntStr(n) == IF n < 0 THEN <<45>> \o Digits(0 - n) ELSE Digits(n)

\* The UTF-8 octets of one code point.
Utf8Char(c) ==
    IF c < 128 THEN <<c>>
    ELSE IF c < 2048 THEN <<192 + (c \div 64), 128 + (c % 64)>>
    ELSE IF c < 65536
         THEN <<224 + (c \div 4096), 128 + ((c \div 64) % 64), 128 + (c % 64)>>
         ELSE <<240 + (c \div 262144), 128 + ((c \div 4096) % 64),
                128 + ((c \div 64) % 64), 128 + (c % 64)>>

RECURSIVE Utf8(_)
Utf8(s) == IF s = <<>> THEN <<>> ELSE Utf8Char(Head(s)) \o Utf8(Tail(s))

RECURSIVE JsonEscape(_)
JsonEscape(s) ==
    IF s = <<>> THEN <<>>
    ELSE (IF Head(s) \in {34, 92} THEN <<92, Head(s)>> ELSE <<Head(s)>>)
         \o JsonEscape(Tail(s))

JsonString(s) == <<34>> \o JsonEscape(s) \o <<34>>

RECURSIVE dumps(_)
RECURSIVE DumpsItems(_)
RECURSIVE DumpsPairs(_)
DumpsItems(items) ==
    IF items = <<>> THEN <<>>
    ELSE dumps(Head(items))
         \o (IF Tail(items) = <<>> THEN <<>> ELSE <<44>> \o DumpsItems(Tail(items)))
DumpsPairs(pairs) ==
    IF pairs = <<>> THEN <<>>
    ELSE JsonString(Head(pairs)[1]) \o <<58>> \o dumps(Head(pairs)[2])
         \o (IF Tail(pairs) = <<>> THEN <<>> ELSE <<44>> \o DumpsPairs(Tail(pairs)))
\* aio_lambda_api.json.dumps: compact JSON text of a value.
dumps(x) ==
    CASE x.t = "None" -> <<110, 117, 108, 108>>
      [] x.t = "str" -> JsonString(x.v)
      [] x.t = "int" -> IntStr(x.v)
      [] x.t = "list" -> <<91>> \o DumpsItems(x.v) \o <<93>>
      [] x.t = "dict" -> <<123>> \o DumpsPairs(x.v) \o <<125>>

\* The i-th character of the base64 alphabet.
B64Char(i) ==
    IF i < 26 THEN 65 + i
    ELSE IF i < 52 THEN 97 + (i - 26)
    ELSE IF i < 62 THEN 48 + (i - 52)
    ELSE IF i = 62 THEN 43 ELSE 47

RECURSIVE b64encode(_)
b64encode(b) ==
    IF Len(b) = 0 THEN <<>>
    ELSE IF Len(b) = 1
         THEN <<B64Char(b[1] \div 4), B64Char((b[1] % 4) * 16), 61, 61>>
    ELSE IF Len(b) = 2
         THEN <<B64Char(b[1] \div 4),
                B64Char((b[1] % 4) * 16 + (b[2] \div 16)),
                B64Char((b[2] % 16) * 4), 61>>
    ELSE <<B64Char(b[1] \div 4),
           B64Char((b[1] % 4) * 16 + (b[2] \div 16)),
           B64Char((b[2] % 16) * 4 + (b[3] \div 64)),
           B64Char(b[3] % 64)>>
         \o b64encode(SubSeq(b, 4, Len(b)))

----------------------------------------------------------------------------
(* Collaborators of core.py: status phrases, responses, requests, logging, *)
(* the argument validator.                                                 *)

\* aio_lambda_api.status.get_status_message: the reason phrase of a status code.
get_status_message(status_code) ==
    CASE status_code = 200 -> Str(TxtOK)
      [] status_code = 202 -> Str(TxtAccepted)
      [] status_code = 400 -> Str(TxtBadRequest)
      [] status_code = 401 -> Str(TxtUnauthorized)
      [] status_code = 404 -> Str(TxtNotFound)
      [] status_code = 405 -> Str(TxtMethodNotAllowed)
      [] status_code = 422 -> Str(TxtUnprocessable)
      [] status_code = 503 -> Str(TxtServiceUnavailable)

\* aio_lambda_api.responses.Response(content, status_code, headers, media_type).
Response(content, status_code, headers, media_type) ==
    [t |-> "Response", cls |-> "Response", content |-> content,
     status_code |-> status_code, headers |-> headers, media_type |-> media_type]

\* aio_lambda_api.responses.JSONResponse(content, status_code).
JSONResponse(content, status_code) ==
    [t |-> "Response", cls |-> "JSONResponse", content |-> content,
     status_code |-> status_code, headers |-> EmptyDict, media_type |-> Str(TxtJson)]

\* Response.render: a JSONResponse serializes its content to JSON text, a plain
\* Response passes an already serialized payload (text or bytes) through.
render(response, body) ==
    IF response.cls = "JSONResponse" THEN Str(dumps(body)) ELSE body

\* aio_lambda_api.requests.Request(event, context).
Request(event, context) == [t |-> "Request", event |-> event, context |-> context]

\* Request.headers: the headers of the event.
RequestHeaders(request) ==
    IF "headers" \in DOMAIN request.event THEN request.event["headers"] ELSE EmptyDict

\* Request.json(): the decoded body of the event, None when there is none.
RequestJson(request) ==
    IF "body" \in DOMAIN request.event THEN request.event["body"] ELSE None

\* aio_lambda_api.logging.logger: the fields of a scope when it is opened.
LoggerEnter(aws_request_id) == SetItem(EmptyDict, "level", "info")

\* aio_lambda_api.logging.logger: the record a scope flushes when it is left, by a
\* return (raised = "none") or by a propagating exception.
LoggerExit(log, raised) ==
    IF raised = "none" THEN log
    ELSE SetItem(SetItem(SetItem(log, "level", "critical"), "status_code", 500),
             "error_detail", Str(TxtTraceback \o <<58, 32>> \o raised))

----------------------------------------------------------------------------
(* Route functions: the handlers an application registers.                 *)

\* The names of the route functions of the application.
Funcs == {"h1", "h2"}

\* The signature of each route function: h1(request: Request,
\* response: JSONResponse, value: int = 0) and h2(value: int).
Signature(name) ==
    IF name = "h1"
    THEN <<[name |-> TxtRequest, annotation |-> "Request", required |-> TRUE],
           [name |-> TxtResponse, annotation |-> "JSONResponse", required |-> TRUE],
           [name |-> TxtValue, annotation |-> "int", required |-> FALSE]>>
    ELSE <<[name |-> TxtValue, annotation |-> "int", required |-> TRUE]>>

\* A route function as the application defines it.
Func(name) == [t |-> "function", name |-> name, validated |-> FALSE]

\* pydantic.validate_arguments(func): a new callable around func that validates
\* the arguments of each call before running func.
ValidateArguments(func) == [func EXCEPT !.validated = TRUE]

\* issubclass(annotation, cls) for the classes of the signatures.
IsSubclass(annotation, cls) ==
    \/ annotation = cls
    \/ annotation = "JSONResponse" /\ cls = "Response"

\* The errors pydantic reports for a call of func with kwargs, param by param, then
\* the unexpected keyword arguments; <<>> when the arguments are valid.
RECURSIVE ParamErrors(_, _)
ParamErrors(sig, kwargs) ==
    IF sig = <<>> THEN <<>>
    ELSE LET p == Head(sig)
             e == IF p.name \notin DictKeys(kwargs)
                  THEN IF p.required
                       THEN <<Dict(<<<<TxtLoc, List(<<Str(p.name)>>)>>,
                                     <<TxtType, Str(TxtMissing)>>>>)>>
                       ELSE <<>>
                  ELSE IF p.annotation = "int" /\ DictGet(kwargs, p.name).t # "int"
                       THEN <<Dict(<<<<TxtLoc, List(<<Str(p.name)>>)>>,
                                     <<TxtType, Str(TxtInteger)>>>>)>>
                       ELSE <<>>
         IN  e \o ParamErrors(Tail(sig), kwargs)

RECURSIVE ExtraErrors(_, _)
ExtraErrors(names, kwargs) ==
    IF kwargs = <<>> THEN <<>>
    ELSE (IF Head(kwargs)[1] \in names THEN <<>>
          ELSE <<Dict(<<<<TxtLoc, List(<<Str(Head(kwargs)[1])>>)>>,
                        <<TxtType, Str(TxtExtra)>>>>)>>)
         \o ExtraErrors(names, Tail(kwargs))

ParamNames(sig) == {sig[i].name : i \in DOMAIN sig}

ValidationErrors(name, kwargs) ==
    ParamErrors(Signature(name), kwargs)
        \o ExtraErrors(ParamNames(Signature(name)), kwargs)

----------------------------------------------------------------------------
(* exceptions.py                                                           *)

\* HTTPException.__init__
HTTPException(status_code, detail, error_detail) ==
    [cls |-> "HTTPException", status_code |-> status_code,
     detail |-> detail, error_detail |-> error_detail]

\* str(x) of a value.
PyStr(x) == IF x.t = "int" THEN Str(IntStr(x.v)) ELSE x

\* HTTPException.detail with the bug of falling back to the diagnostic detail.
HTTPException_detailLeaks(exception) ==
    IF Truthy(exception.detail) THEN exception.detail
    ELSE IF Truthy(exception.error_detail) THEN exception.error_detail
    ELSE get_status_message(exception.status_code)

\* HTTPException.detail with the bug of falling back to the reason phrase only
\* when the detail is None.
HTTPException_detailIsNone(exception) ==
    IF ~IsNone(exception.detail)
    THEN exception.detail
    ELSE get_status_message(exception.status_code)

\* HTTPException.detail
HTTPException_detail(exception) ==
    IF Truthy(exception.detail)
    THEN exception.detail
    ELSE get_status_message(exception.status_code)

\* HTTPException.error_detail with the bug of never falling back to the public
\* detail.
HTTPException_error_detailOnly(exception) ==
    IF Truthy(exception.error_detail) THEN PyStr(exception.error_detail) ELSE None

\* HTTPException.error_detail
HTTPException_error_detail(exception) ==
    IF Truthy(exception.error_detail) THEN PyStr(exception.error_detail)
    ELSE IF Truthy(exception.detail) THEN PyStr(exception.detail)
    ELSE None

----------------------------------------------------------------------------
(* core.py: route registration.                                            *)

\* _APIRoute.__init__
APIRoute(func, status_code, params) ==
    [func |-> func, status_code |-> status_code, params |-> params]

\* Handler._check_signature: the parameters to inject, in signature order, as
\* <<name, class>> pairs.
RECURSIVE CheckParams(_)
CheckParams(sig) ==
    IF sig = <<>> THEN <<>>
    ELSE (IF IsSubclass(Head(sig).annotation, "Request")
          THEN <<<<Head(sig).name, "Request">>>>
          ELSE IF IsSubclass(Head(sig).annotation, "Response")
               THEN <<<<Head(sig).name, "Response">>>>
               ELSE <<>>)
         \o CheckParams(Tail(sig))

check_signature(func) == CheckParams(Signature(func.name))

\* The route function the decorator stores and returns: the validating wrapper
\* when pydantic is importable, else func itself.
RouteFunc(func, validator) == IF validator THEN ValidateArguments(func) ELSE func

RouteExists(table, path, method) ==
    path \in DOMAIN table /\ method \in DOMAIN table[path]

\* decorator with the bug of returning the function it was given while the route
\* holds the validating wrapper.
decoratorReturnsGiven(table, validator, path, method, status_code, func) ==
    IF RouteExists(table, path, method)
    THEN [routes |-> table, raised |-> "ValueError", returned |-> None]
    ELSE LET path_routes == IF path \in DOMAIN table THEN table[path] ELSE EmptyDict
             route == APIRoute(RouteFunc(func, validator),
                               IF Truthy(status_code) THEN status_code.v ELSE 200,
                               check_signature(func))
         IN  [routes |-> SetItem(table, path, SetItem(path_routes, method, route)),
              raised |-> "none", returned |-> func]

\* decorator with the bug of storing the route before it looks for a conflict.
decoratorOverwrite(table, validator, path, method, status_code, func) ==
    LET path_routes == IF path \in DOMAIN table THEN table[path] ELSE EmptyDict
        route == APIRoute(RouteFunc(func, validator),
                          IF Truthy(status_code) THEN status_code.v ELSE 200,
                          check_signature(func))
        stored == SetItem(table, path, SetItem(path_routes, method, route))
    IN  IF RouteExists(table, path, method)
        THEN [routes |-> stored, raised |-> "ValueError", returned |-> None]
        ELSE [routes |-> stored, raised |-> "none", returned |-> RouteFunc(func, validator)]

\* Handler._api_route.decorator: the route table and what the call returns or
\* raises.
decorator(table, validator, path, method, status_code, func) ==
    LET params == check_signature(func)
        func1 == RouteFunc(func, validator)
    IN  IF RouteExists(table, path, method)
        THEN [routes |-> table, raised |-> "ValueError", returned |-> None]
        ELSE LET path_routes == IF path \in DOMAIN table THEN table[path] ELSE EmptyDict
                 route == APIRoute(func1,
                                   IF Truthy(status_code) THEN status_code.v ELSE 200,
                                   params)
             IN  [routes |-> SetItem(table, path, SetItem(path_routes, method, route)),
                  raised |-> "none", returned |-> func1]

\* Handler._api_route
api_route(table, validator, path, method, status_code, func) ==
    decorator(table, validator, path, method, status_code, func)

\* The registrations an application makes: a route function and the status_code
\* argument (None when it is not given).
Registrations == {<<"h1", None>>, <<"h2", IntV(200)>>, <<"h2", IntV(202)>>}

Paths == {"/", "/x"}

RouteCount(table) == Cardinality({pm \in Paths \X {"GET", "POST", "PUT", "PATCH",
                                                   "DELETE", "HEAD", "OPTIONS"} :
                                   RouteExists(table, pm[1], pm[2])})

\* One registration call, @handler.<method>(path, status_code=...)(func).
Register(path, method, status_code, name) ==
    LET r == api_route(routes, validate_arguments, path, method, status_code, Func(name))
    IN  /\ result.op = "idle"
        /\ routes' = r.routes
        /\ declared' = IF r.raised = "none"
                       THEN SetItem(declared, <<path, method>>, status_code)
                       ELSE declared
        /\ result' = [op |-> "register", path |-> path, method |-> method,
                      func |-> Func(name), status_code |-> status_code,
                      raised |-> r.raised, returned |-> r.returned]
        /\ UNCHANGED <<validate_arguments, lifecycle>>

\* Handler.get, .put, .post, .patch, .delete, .head, .options
get(path, status_code, name) == Register(path, "GET", status_code, name)
put(path, status_code, name) == Register(path, "PUT", status_code, name)
post(path, status_code, name) == Register(path, "POST", status_code, name)
patch(path, status_code, name) == Register(path, "PATCH", status_code, name)
delete(path, status_code, name) == Register(path, "DELETE", status_code, name)
head(path, status_code, name) == Register(path, "HEAD", status_code, name)
options(path, status_code, name) == Register(path, "OPTIONS", status_code, name)

----------------------------------------------------------------------------
(* core.py: dispatch of one event.                                         *)

NoExc == [cls |-> "none"]

\* Handler._get_route_from_event: the method and path of an HTTP API or REST API
\* event; a missing key raises KeyError.
get_route_from_event(event) ==
    IF "requestContext" \notin DOMAIN event
    THEN [exc |-> [cls |-> "KeyError"]]
    ELSE LET request_context == event["requestContext"]
         IN  IF "http" \in DOMAIN request_context
             THEN LET http == request_context["http"]
                  IN  IF {"method", "path"} \subseteq DOMAIN http
                      THEN [exc |-> NoExc, method |-> http["method"], path |-> http["path"]]
                      ELSE [exc |-> [cls |-> "KeyError"]]
             ELSE IF {"httpMethod", "path"} \subseteq DOMAIN request_context
                  THEN [exc |-> NoExc, method |-> request_context["httpMethod"],
                        path |-> request_context["path"]]
                  ELSE [exc |-> [cls |-> "KeyError"]]

\* ResolveRoute with the bug of falling back to another method of the path when
\* the method has no route.
ResolveRouteAnyMethod(table, path, method) ==
    IF path \notin DOMAIN table
    THEN [exc |-> HTTPException(404, None, None)]
    ELSE IF method \notin DOMAIN table[path]
         THEN [exc |-> NoExc,
               route |-> table[path][CHOOSE m \in DOMAIN table[path] : TRUE]]
         ELSE [exc |-> NoExc, route |-> table[path][method]]

\* Handler._prepare_request, the route lookup: HTTPException(404) for an unknown
\* path, HTTPException(405) for a known path without the method.
ResolveRoute(table, path, method) ==
    IF path \notin DOMAIN table
    THEN [exc |-> HTTPException(404, None, None)]
    ELSE IF method \notin DOMAIN table[path]
         THEN [exc |-> HTTPException(405, None, None)]
         ELSE [exc |-> NoExc, route |-> table[path][method]]

\* InjectParams with the bug of keeping a body key named like a flagged parameter.
RECURSIVE InjectParamsKeepBody(_, _, _, _)
InjectParamsKeepBody(params, kwargs, request, response) ==
    IF params = <<>> THEN kwargs
    ELSE LET param_name == Head(params)[1]
             param_cls == Head(params)[2]
             kwargs1 == IF param_name \in DictKeys(kwargs) THEN kwargs
                        ELSE IF param_cls = "Request"
                             THEN DictSet(kwargs, param_name, request)
                             ELSE DictSet(kwargs, param_name, response)
         IN  InjectParamsKeepBody(Tail(params), kwargs1, request, response)

\* Handler._prepare_request, the loop over route.params: the request and the
\* response are put in kwargs under the names flagged at registration.
RECURSIVE InjectParams(_, _, _, _)
InjectParams(params, kwargs, request, response) ==
    IF params = <<>> THEN kwargs
    ELSE LET param_name == Head(params)[1]
             param_cls == Head(params)[2]
             kwargs1 == IF param_cls = "Request" THEN DictSet(kwargs, param_name, request)
                        ELSE IF param_cls = "Response"
                             THEN DictSet(kwargs, param_name, response)
                             ELSE kwargs
         IN  InjectParams(Tail(params), kwargs1, request, response)

\* Handler._prepare_request, the keyword arguments of the route function.
BuildKwargs(route, request, response) ==
    LET body == RequestJson(request)
        kwargs == IF body.t = "dict" THEN body.v ELSE <<>>
    IN  InjectParams(route.params, kwargs, request, response)

\* route.func(**kwargs): the validating wrapper raises ValidationError on invalid
\* arguments; the plain function raises TypeError when the keywords do not bind to
\* its parameters; otherwise the call makes the coroutine, which has not run yet.
CallFunc(func, kwargs) ==
    LET sig == Signature(func.name)
        binds == /\ DictKeys(kwargs) \subseteq ParamNames(sig)
                 /\ \A i \in DOMAIN sig : sig[i].required => sig[i].name \in DictKeys(kwargs)
        errors == ValidationErrors(func.name, kwargs)
    IN  IF func.validated /\ errors # <<>>
        THEN [exc |-> [cls |-> "ValidationError", errors |-> List(errors)]]
        ELSE IF ~func.validated /\ ~binds
             THEN [exc |-> [cls |-> "TypeError"]]
             ELSE [exc |-> NoExc, coroutine |-> [func |-> func, kwargs |-> kwargs]]

\* Handler._prepare_request
prepare_request(table, path, method, event, context) ==
    LET found == ResolveRoute(table, path, method)
    IN  IF found.exc # NoExc
        THEN [exc |-> found.exc, called |-> <<>>]
        ELSE LET route == found.route
                 request == Request(event, context)
                 response == JSONResponse(None, route.status_code)
                 kwargs == BuildKwargs(route, request, response)
                 made == CallFunc(route.func, kwargs)
                 called == <<[func |-> route.func, kwargs |-> kwargs]>>
             IN  IF made.exc # NoExc
                 THEN [exc |-> made.exc, called |-> called]
                 ELSE [exc |-> NoExc, called |-> called, request |-> request,
                       response |-> response, func |-> made.coroutine]

\* AbsentContent with the bug of keeping a 200 that has no content.
AbsentContentKeep200(status_code) ==
    IF status_code >= 400
    THEN [status_code |-> status_code,
          body |-> Dict(<<<<TxtDetails, get_status_message(status_code)>>>>)]
    ELSE [status_code |-> status_code, body |-> None]

\* Handler._prepare_response, the rules for an absent content: the status code
\* and the body to serialize.
AbsentContent(status_code) ==
    IF status_code = 200 THEN [status_code |-> 204, body |-> None]
    ELSE IF status_code >= 400
         THEN [status_code |-> status_code,
               body |-> Dict(<<<<TxtDetails, get_status_message(status_code)>>>>)]
         ELSE [status_code |-> status_code, body |-> None]

\* len(body) of a rendered payload: the characters of a str, the octets of bytes.
PyLen(body) == Len(body.v)

\* Handler._prepare_response, the serialization of a present content: the body of
\* the envelope, the headers and the base64 flag.
RenderBody(response, body, headers) ==
    LET rendered == render(response, body)
        headers1 == SetItem(headers, "content-length", Str(IntStr(PyLen(rendered))))
        headers2 == IF ~IsNone(response.media_type)
                    THEN SetItem(headers1, "content-type", response.media_type)
                    ELSE headers1
    IN  IF rendered.t = "bytes"
        THEN [body |-> Str(b64encode(rendered.v)), headers |-> headers2,
              is_base64_encoded |-> TRUE, rendered |-> rendered]
        ELSE [body |-> rendered, headers |-> headers2, is_base64_encoded |-> FALSE,
              rendered |-> rendered]

\* Handler._prepare_response: the envelope and the log of the scope.
prepare_response(response, log) ==
    LET first == IF IsNone(response.content)
                 THEN AbsentContent(response.status_code)
                 ELSE [status_code |-> response.status_code, body |-> response.content]
        second == IF ~IsNone(first.body)
                  THEN RenderBody(response, first.body, response.headers)
                  ELSE [body |-> None, headers |-> response.headers,
                        is_base64_encoded |-> FALSE, rendered |-> None]
        log1 == SetItem(log, "status_code", first.status_code)
        headers == IF "request_id" \in DOMAIN log1
                   THEN SetItem(second.headers, "x-request-id", log1["request_id"])
                   ELSE second.headers
    IN  [envelope |-> [body |-> second.body,
                       statusCode |-> Str(IntStr(first.status_code)),
                       headers |-> headers,
                       isBase64Encoded |-> second.is_base64_encoded],
         rendered |-> second.rendered,
         final |-> response,
         log |-> log1]

\* What a route function does once its coroutine is driven: it may assign the
\* status code and a header of the injected response, then it returns a value,
\* raises, or does not finish within FUNCTION_TIMEOUT.
NoBeh == [kind |-> "none"]

Mutations == {[status_code |-> None, header |-> FALSE],
              [status_code |-> IntV(200), header |-> FALSE],
              [status_code |-> IntV(400), header |-> TRUE],
              [status_code |-> IntV(401), header |-> FALSE]}

NoMutation == [status_code |-> None, header |-> FALSE]

ReturnedValues == {None, Str(TxtGet), Dict(<<<<TxtValue, IntV(0)>>>>)}

ReturnedResponses ==
    {Response(None, 200, EmptyDict, None),
     Response(Bytes(<<116, 255>>), 200, EmptyDict, Str(TxtOctetStream)),
     Response(Str(TxtEAcute), 200, EmptyDict, Str(TxtPlain)),
     Response(Str(TxtGet), 202, EmptyDict, None),
     JSONResponse(None, 401),
     JSONResponse(Str(TxtGet), 200)}

RaisedHTTPExceptions ==
    {HTTPException(c, d, e) : c \in {400, 503},
                              d \in {None, Str(<<>>), Str(TxtCustom)},
                              e \in {None, Str(TxtSecret), Str(TxtCustom)}}

HasResponseParam(name) ==
    \E i \in DOMAIN Signature(name) : IsSubclass(Signature(name)[i].annotation, "Response")

BehavioursOf(name) ==
    {[kind |-> "return", mut |-> m, value |-> v] :
        m \in (IF HasResponseParam(name) THEN Mutations ELSE {NoMutation}),
        v \in ReturnedValues}
    \cup {[kind |-> "return", mut |-> NoMutation, value |-> r] : r \in ReturnedResponses}
    \cup {[kind |-> "raise", mut |-> NoMutation, exc |-> x] : x \in RaisedHTTPExceptions}
    \cup {[kind |-> "raise", mut |-> NoMutation, exc |-> [cls |-> "ValueError"]],
          [kind |-> "timeout", mut |-> NoMutation]}

\* The injected response after the route function has run.
Mutate(response, mut) ==
    LET r1 == IF IsNone(mut.status_code) THEN response
              ELSE [response EXCEPT !.status_code = mut.status_code.v]
    IN  IF mut.header
        THEN [r1 EXCEPT !.headers = SetItem(r1.headers, "test", Str(TxtTest))]
        ELSE r1

\* call_route_function with the bug of putting the content of a returned Response
\* in the seeded response.
call_route_functionKeepSeeded(func, response, beh, log) ==
    IF beh.kind = "timeout" THEN [exc |-> [cls |-> "TimeoutError"]]
    ELSE IF beh.kind = "raise" THEN [exc |-> beh.exc]
    ELSE LET content == beh.value
             seeded == Mutate(response, beh.mut)
             final == IF content.t = "Response"
                      THEN [seeded EXCEPT !.content = content.content]
                      ELSE [seeded EXCEPT !.content = content]
             out == prepare_response(final, log)
         IN  [exc |-> NoExc, envelope |-> out.envelope, log |-> out.log,
              rendered |-> out.rendered, final |-> out.final]

\* Handler._call_route_function: run_async(wait_for(func, FUNCTION_TIMEOUT)), then
\* the returned Response, or the seeded one with the returned content.
call_route_function(func, response, beh, log) ==
    IF beh.kind = "timeout" THEN [exc |-> [cls |-> "TimeoutError"]]
    ELSE IF beh.kind = "raise" THEN [exc |-> beh.exc]
    ELSE LET content == beh.value
             seeded == Mutate(response, beh.mut)
             final == IF content.t = "Response" THEN content
                      ELSE [seeded EXCEPT !.content = content]
             out == prepare_response(final, log)
         IN  [exc |-> NoExc, envelope |-> out.envelope, log |-> out.log,
              rendered |-> out.rendered, final |-> out.final]

\* Handler.__call__, except _HttpException.
HandleHTTPException(exception, log) ==
    LET error_detail == HTTPException_error_detail(exception)
        log1 == IF Truthy(error_detail) THEN SetItem(log, "error_detail", error_detail)
                ELSE log
        log2 == SetItem(log1, "status_code", exception.status_code)
        log3 == IF exception.status_code >= 500 THEN SetItem(log2, "level", "error")
                ELSE IF exception.status_code >= 400 THEN SetItem(log2, "level", "warning")
                ELSE log2
    IN  prepare_response(
            JSONResponse(Dict(<<<<TxtDetail, HTTPException_detail(exception)>>>>),
                         exception.status_code),
            log3)

\* HandleValidationError with the bug of not logging the errors.
HandleValidationErrorUnlogged(exception, log) ==
    prepare_response(JSONResponse(Dict(<<<<TxtDetail, exception.errors>>>>), 422),
                     SetItem(SetItem(log, "status_code", 422), "level", "warning"))

\* Handler.__call__, except _ValidationError.
HandleValidationError(exception, log) ==
    LET errors == exception.errors
        log1 == SetItem(log, "error_detail", Str(dumps(errors)))
        log2 == SetItem(log1, "status_code", 422)
        log3 == SetItem(log2, "level", "warning")
    IN  prepare_response(JSONResponse(Dict(<<<<TxtDetail, errors>>>>), 422), log3)

\* Handler.__call__, the except clauses: the exceptions turned into an envelope.
Caught(exception) == exception.cls \in {"HTTPException", "ValidationError"}

\* Handler.__call__, the log fields taken from the request: the request id from
\* the x-request-id header, else from the request context (KeyError when it has
\* none), and the user agent when the header is there.
RequestLog(prepared, event, log) ==
    LET headers == RequestHeaders(prepared.request)
        log1 == IF "x-request-id" \in DOMAIN headers
                THEN SetItem(log, "request_id", headers["x-request-id"])
                ELSE IF "requestId" \in DOMAIN event["requestContext"]
                     THEN SetItem(log, "request_id", event["requestContext"]["requestId"])
                     ELSE log
    IN  IF "request_id" \notin DOMAIN log1
        THEN [exc |-> [cls |-> "KeyError"], log |-> log1, called |-> prepared.called]
        ELSE [exc |-> NoExc,
              log |-> IF "user-agent" \in DOMAIN headers
                      THEN SetItem(log1, "user_agent", headers["user-agent"])
                      ELSE log1,
              called |-> prepared.called, request |-> prepared.request,
              response |-> prepared.response, func |-> prepared.func]

\* Handler.__call__, the try statement after _prepare_request.
AfterPrepare(prepared, event, log) ==
    IF prepared.exc # NoExc
    THEN [exc |-> prepared.exc, log |-> log, called |-> prepared.called]
    ELSE RequestLog(prepared, event, log)

\* Handler.__call__, the body of the try statement up to the call of the route
\* function: the log fields, the request, the seeded response and the coroutine.
TryBody(table, method, path, event, context, log) ==
    AfterPrepare(prepare_request(table, path, method, event, context), event,
                 SetItem(SetItem(log, "method", method), "path", path))

\* What an invocation hands to its caller once an envelope is made.
Returned(out, exception, called, ran) ==
    [raised |-> "none", exception |-> exception, envelope |-> out.envelope,
     rendered |-> out.rendered, final |-> out.final, scope |-> TRUE,
     log |-> LoggerExit(out.log, "none"),
     called |-> called, ran |-> ran]

\* The outcome of an invocation that raised `exception` inside the logging scope.
Except(exception, log, called, ran) ==
    IF Caught(exception)
    THEN Returned(IF exception.cls = "HTTPException"
                  THEN HandleHTTPException(exception, log)
                  ELSE HandleValidationError(exception, log),
                  exception, called, ran)
    ELSE [raised |-> exception.cls, exception |-> exception, envelope |-> None,
          rendered |-> None, final |-> None, scope |-> TRUE,
          log |-> LoggerExit(log, exception.cls), called |-> called, ran |-> ran]

\* Handler.__call__, after _call_route_function returned or raised.
AfterRun(done, try) ==
    IF done.exc # NoExc
    THEN Except(done.exc, try.log, try.called, <<try.func.func.name>>)
    ELSE Returned(done, NoExc, try.called, <<try.func.func.name>>)

\* Handler.__call__, after the body of the try statement up to the call of the
\* route function.
AfterTry(try, beh) ==
    IF try.exc # NoExc
    THEN Except(try.exc, try.log, try.called, <<>>)
    ELSE AfterRun(call_route_function(try.func, try.response, beh, try.log), try)

\* Handler.__call__, inside the logging scope.
InScope(table, route, event, context, beh) ==
    AfterTry(TryBody(table, route.method, route.path, event, context,
                     LoggerEnter(context.aws_request_id)),
             beh)

\* AfterRoute with the bug of opening the logging scope before the route is taken
\* from the event.
AfterRouteInScope(table, route, event, context, beh) ==
    IF route.exc # NoExc
    THEN [raised |-> route.exc.cls, exception |-> route.exc, envelope |-> None,
          rendered |-> None, final |-> None, scope |-> TRUE,
          log |-> LoggerExit(LoggerEnter(context.aws_request_id), route.exc.cls),
          called |-> <<>>, ran |-> <<>>]
    ELSE InScope(table, route, event, context, beh)

\* Handler.__call__, after _get_route_from_event.
AfterRoute(table, route, event, context, beh) ==
    IF route.exc # NoExc
    THEN [raised |-> route.exc.cls, exception |-> route.exc, envelope |-> None,
          rendered |-> None, final |-> None, scope |-> FALSE, log |-> EmptyDict,
          called |-> <<>>, ran |-> <<>>]
    ELSE InScope(table, route, event, context, beh)

\* Handler.__call__: what the invocation returns or raises, the record its logging
\* scope flushed, the route functions it called and the coroutines it ran.
call(table, event, context, beh) ==
    AfterRoute(table, get_route_from_event(event), event, context, beh)

----------------------------------------------------------------------------
(* The state machine.                                                      *)

\* The Lambda context of an invocation.
Context == [aws_request_id |-> "aws-request"]

Methods == {"GET", "PUT"}

\* An HTTP API (version 2) or REST API (version 1) event.
Event(version, method, path, request_id, headers, body) ==
    LET http == IF version = 2
                THEN [http |-> [method |-> method, path |-> path]]
                ELSE [httpMethod |-> method, path |-> path]
        request_context == IF IsNone(request_id) THEN http
                           ELSE SetItem(http, "requestId", request_id)
    IN  [requestContext |-> request_context, headers |-> headers, body |-> body]

HeadersFull == [x \in {"x-request-id", "user-agent"} |->
                   IF x = "user-agent" THEN Str(TxtAgent) ELSE Str(TxtRid1)]

HeadersId == [x \in {"x-request-id"} |-> Str(TxtRid1)]

\* The decoded bodies of the events: none, a number, and mappings, one of which
\* has keys named like the injected parameters of h1.
Bodies ==
    {IntV(1),
     Dict(<<<<TxtValue, IntV(1)>>>>),
     Dict(<<<<TxtValue, Str(TxtGet)>>>>),
     Dict(<<<<TxtRequest, IntV(1)>>, <<TxtResponse, IntV(2)>>, <<TxtValue, IntV(3)>>>>)}

\* The events addressed to a path with a method.
EventsFor(method, path) ==
    {Event(2, method, path, None, HeadersFull, None),
     Event(1, method, path, Str(TxtRid2), EmptyDict, None),
     Event(2, method, path, None, EmptyDict, None)}
    \cup {Event(2, method, path, Str(TxtRid2), HeadersId, b) : b \in Bodies}

\* Events of a shape the handler does not support.
UnsupportedEvents ==
    {[headers |-> HeadersFull, body |-> None],
     [requestContext |-> [requestId |-> Str(TxtRid2)], headers |-> EmptyDict,
      body |-> None],
     [requestContext |-> [http |-> [path |-> "/"]], headers |-> EmptyDict, body |-> None]}

Events == UnsupportedEvents
          \cup UNION {EventsFor(m, p) : m \in Methods, p \in Paths}

\* The behaviours the route function of an invocation can show: those of the
\* function whose coroutine is driven, none when no coroutine is driven.
BehavioursAfter(try) ==
    IF try.exc # NoExc THEN {NoBeh} ELSE BehavioursOf(try.func.func.name)

BehavioursIn(table, route, event) ==
    IF route.exc # NoExc THEN {NoBeh}
    ELSE BehavioursAfter(TryBody(table, route.method, route.path, event, Context,
                                 LoggerEnter(Context.aws_request_id)))

BehaviourChoices(table, event) ==
    BehavioursIn(table, get_route_from_event(event), event)

\* The async context managers of the application.
Contexts == {"c1", "c2"}

\* No event: the thread is not in an invocation.
NoEvent == [t |-> "None"]

\* Handler.__init__, with pydantic importable or not: no route, a new event loop
\* and an empty exit stack.
Init ==
    /\ routes = EmptyDict
    /\ validate_arguments \in BOOLEAN
    /\ declared = EmptyDict
    /\ result = [op |-> "idle"]
    /\ pc = "idle"
    /\ invocation = [n |-> 0, event |-> NoEvent, beh |-> NoBeh]
    /\ scopes = <<>>
    /\ loop = {}
    /\ exit_stack = <<>>
    /\ contexts = [c \in Contexts |-> [state |-> "new", exits |-> 0]]
    /\ teardown = None

\* One invocation of the handler by the Lambda runtime.
Call ==
    \E event \in Events :
        \E beh \in BehaviourChoices(routes, event) :
            /\ result.op = "idle"
            /\ result' = [op |-> "call", event |-> event, beh |-> beh,
                          out |-> call(routes, event, Context, beh)]
            /\ UNCHANGED <<routes, validate_arguments, declared, lifecycle>>

\* Registration is bounded: at most MaxRoutes routes (a conflicting registration
\* adds none).
CanRegister(path, method) ==
    RouteCount(routes) < MaxRoutes \/ RouteExists(routes, path, method)

\* @handler.get(path, status_code=...) applied to a route function, and the same
\* for the six other operations.
Get ==
    \E path \in Paths, reg \in Registrations :
        CanRegister(path, "GET") /\ get(path, reg[2], reg[1])

Put ==
    \E path \in Paths, reg \in Registrations :
        CanRegister(path, "PUT") /\ put(path, reg[2], reg[1])

Post ==
    \E path \in Paths, reg \in Registrations :
        CanRegister(path, "POST") /\ post(path, reg[2], reg[1])

Patch ==
    \E path \in Paths, reg \in Registrations :
        CanRegister(path, "PATCH") /\ patch(path, reg[2], reg[1])

Delete ==
    \E path \in Paths, reg \in Registrations :
        CanRegister(path, "DELETE") /\ delete(path, reg[2], reg[1])

Head_ ==
    \E path \in Paths, reg \in Registrations :
        CanRegister(path, "HEAD") /\ head(path, reg[2], reg[1])

Options ==
    \E path \in Paths, reg \in Registrations :
        CanRegister(path, "OPTIONS") /\ options(path, reg[2], reg[1])

\* The caller takes what the operation returned or raised and goes on.
Resume ==
    /\ result.op # "idle"
    /\ result' = [op |-> "idle"]
    /\ UNCHANGED <<routes, validate_arguments, declared, lifecycle>>

\* Registration through get and put, and invocations.
Next == Get \/ Put \/ Call \/ Resume

Spec == Init /\ [][Next]_vars

\* Registration alone, through each of the seven operations.
NextRegistration ==
    Get \/ Put \/ Post \/ Patch \/ Delete \/ Head_ \/ Options \/ Resume

SpecRegistration == Init /\ [][NextRegistration]_vars

----------------------------------------------------------------------------
(* The handler step by step: one thread registers routes, enters async     *)
(* contexts, runs tasks and serves invocations, each a sequence of steps   *)
(* through Handler.__call__; at the end the handler is deleted.            *)

\* The task of the route function of invocation n, and the task of a run_async
\* call of the setup code.
CallTask(n) == <<"call", n>>

SetupTask == <<"setup", 0>>

\* run_async with the bug of scheduling the task without waiting for it.
run_asyncNoWait(pending, task) == pending

\* Handler.run_async: run_until_complete returns once the task is done (returned,
\* raised, or cancelled by wait_for at the timeout); the loop holds it no more.
run_async(pending, task) == pending \ {task}

\* enter_async_context with the bug of entering the context without giving it to
\* the exit stack.
enter_async_contextUnstacked(stack, ctxs, context, entered) ==
    IF entered
    THEN [exit_stack |-> stack,
          contexts |-> [ctxs EXCEPT ![context].state = "entered"], raised |-> "none"]
    ELSE [exit_stack |-> stack,
          contexts |-> [ctxs EXCEPT ![context].state = "failed"],
          raised |-> "Exception"]

\* Handler.enter_async_context: the exit stack enters the context and keeps it
\* when __aenter__ returned; when __aenter__ raised, the exception goes to the
\* caller and the stack does not keep the context.
enter_async_context(stack, ctxs, context, entered) ==
    IF entered
    THEN [exit_stack |-> Append(stack, context),
          contexts |-> [ctxs EXCEPT ![context].state = "entered"], raised |-> "none"]
    ELSE [exit_stack |-> stack,
          contexts |-> [ctxs EXCEPT ![context].state = "failed"],
          raised |-> "Exception"]

\* How many times the stack holds the context.
Held(stack, context) == Cardinality({i \in DOMAIN stack : stack[i] = context})

\* Handler.__del__: the exit stack exits every context it holds, each once, the
\* others too when the exit of one raises; it raises when an exit raised.  An
\* exception raised by __del__ is reported by the interpreter and goes no
\* further.
Handler_del(stack, ctxs, failing) ==
    [exit_stack |-> <<>>,
     contexts |-> [c \in DOMAIN ctxs |->
                      IF Held(stack, c) > 0
                      THEN [state |-> "exited", exits |-> ctxs[c].exits + Held(stack, c)]
                      ELSE ctxs[c]],
     raised |-> IF \E c \in failing : Held(stack, c) > 0 THEN "Exception" ELSE "none",
     propagated |-> FALSE]

\* The events of the invocations followed step by step.
LifecycleEvents ==
    {[headers |-> HeadersFull, body |-> None],
     Event(2, "GET", "/", None, HeadersFull, None),
     Event(2, "GET", "/", None, EmptyDict, None),
     Event(1, "GET", "/x", Str(TxtRid2), EmptyDict, Dict(<<<<TxtValue, IntV(1)>>>>)),
     Event(2, "PUT", "/", Str(TxtRid2), HeadersId, None)}

\* The behaviours of the route functions of the invocations followed step by
\* step: it returns None, raises an HTTPException or a ValueError, or times out.
LifecycleBehaviours(choices) ==
    {b \in choices :
        \/ b.kind \in {"none", "timeout"}
        \/ b.kind = "raise"
           /\ (b.exc = [cls |-> "ValueError"] \/ b.exc = HTTPException(400, None, None))
        \/ b.kind = "return" /\ b.mut = NoMutation /\ b.value = None}

\* The thread is not in a call of the handler, and the handler is alive.
Idle == pc = "idle" /\ result.op = "idle"

\* A registration by the setup code.
RegisterRoute ==
    /\ Idle
    /\ Get
    /\ UNCHANGED lifecycle

\* Handler.enter_async_context(context) by the setup code; __aenter__ returns or
\* raises.
EnterAsyncContext ==
    \E context \in Contexts, entered \in BOOLEAN :
        LET r == enter_async_context(exit_stack, contexts, context, entered)
        IN  /\ Idle
            /\ contexts[context].state = "new"
            /\ exit_stack' = r.exit_stack
            /\ contexts' = r.contexts
            /\ result' = [op |-> "enter_async_context", context |-> context,
                          raised |-> r.raised]
            /\ UNCHANGED <<routes, validate_arguments, declared, pc, invocation,
                           scopes, loop, teardown>>

\* Handler.run_async(task) by the setup code: the loop takes the task.
RunAsyncBegin ==
    /\ Idle
    /\ pc' = "setup"
    /\ loop' = loop \cup {SetupTask}
    /\ UNCHANGED <<routes, validate_arguments, declared, result, invocation,
                   scopes, exit_stack, contexts, teardown>>

\* Handler.run_async(task) by the setup code: the task returns or raises, and
\* run_async returns or raises the same.
RunAsyncEnd ==
    \E raised \in {"none", "Exception"} :
        /\ pc = "setup"
        /\ loop' = run_async(loop, SetupTask)
        /\ pc' = "idle"
        /\ result' = [op |-> "run_async", raised |-> raised]
        /\ UNCHANGED <<routes, validate_arguments, declared, invocation, scopes,
                       exit_stack, contexts, teardown>>

\* Handler.__call__, line 82: the Lambda runtime calls the handler with an event;
\* an event of an unsupported shape raises before the logging scope.
Invoke ==
    \E event \in LifecycleEvents :
        /\ Idle
        /\ invocation.n < MaxInvocations
        /\ IF get_route_from_event(event).exc # NoExc
           THEN /\ invocation' = [invocation EXCEPT !.n = @ + 1]
                /\ result' = [op |-> "call", event |-> event, beh |-> NoBeh,
                              out |-> call(routes, event, Context, NoBeh)]
                /\ UNCHANGED pc
           ELSE /\ invocation' = [n |-> invocation.n + 1, event |-> event, beh |-> NoBeh]
                /\ pc' = "logger"
                /\ UNCHANGED result
        /\ UNCHANGED <<routes, validate_arguments, declared, scopes, loop,
                       exit_stack, contexts, teardown>>

\* Handler.__call__, line 83: the logging scope of the invocation is opened.
EnterScope ==
    /\ pc = "logger"
    /\ scopes' = Append(scopes, invocation.n)
    /\ pc' = "try"
    /\ UNCHANGED <<routes, validate_arguments, declared, result, invocation, loop,
                   exit_stack, contexts, teardown>>

\* Handler.__call__, lines 84-99: the route is looked up, the route function is
\* called and the request is logged; an exception goes to the except clauses.
Prepare ==
    /\ pc = "try"
    /\ pc' = IF TryBody(routes, get_route_from_event(invocation.event).method,
                        get_route_from_event(invocation.event).path,
                        invocation.event, Context,
                        LoggerEnter(Context.aws_request_id)).exc # NoExc
             THEN "exit" ELSE "run"
    /\ UNCHANGED <<routes, validate_arguments, declared, result, invocation, scopes,
                   loop, exit_stack, contexts, teardown>>

\* Handler._call_route_function, line 198: run_async gives the task of the route
\* function to the loop.
Drive ==
    /\ pc = "run"
    /\ loop' = loop \cup {CallTask(invocation.n)}
    /\ pc' = "driving"
    /\ UNCHANGED <<routes, validate_arguments, declared, result, invocation, scopes,
                   exit_stack, contexts, teardown>>

\* Handler._call_route_function, line 198: the route function returns, raises or
\* times out, and run_async returns.
Complete ==
    \E beh \in LifecycleBehaviours(BehaviourChoices(routes, invocation.event)) :
        /\ pc = "driving"
        /\ loop' = run_async(loop, CallTask(invocation.n))
        /\ invocation' = [invocation EXCEPT !.beh = beh]
        /\ pc' = "exit"
        /\ UNCHANGED <<routes, validate_arguments, declared, result, scopes,
                       exit_stack, contexts, teardown>>

\* Handler.__call__, lines 101-126 and the end of the with statement: the envelope
\* is made or the exception goes on, the logging scope is left and flushes its
\* record, and the invocation is over.
ExitScope ==
    /\ pc = "exit"
    /\ scopes' = SubSeq(scopes, 1, Len(scopes) - 1)
    /\ result' = [op |-> "call", event |-> invocation.event, beh |-> invocation.beh,
                  out |-> call(routes, invocation.event, Context, invocation.beh)]
    /\ invocation' = [n |-> invocation.n, event |-> NoEvent, beh |-> NoBeh]
    /\ pc' = "idle"
    /\ UNCHANGED <<routes, validate_arguments, declared, loop, exit_stack, contexts,
                   teardown>>

\* Handler.__del__: the handler is deleted when nothing uses it any more; the
\* exit of each context returns or raises.
Del ==
    \E failing \in SUBSET Contexts :
        LET r == Handler_del(exit_stack, contexts, failing)
        IN  /\ Idle
            /\ exit_stack' = r.exit_stack
            /\ contexts' = r.contexts
            /\ teardown' = [raised |-> r.raised, propagated |-> r.propagated]
            /\ pc' = "deleted"
            /\ UNCHANGED <<routes, validate_arguments, declared, result, invocation,
                           scopes, loop>>

\* The handler from its construction to its deletion.
NextLifecycle ==
    \/ RegisterRoute
    \/ EnterAsyncContext
    \/ RunAsyncBegin
    \/ RunAsyncEnd
    \/ Invoke
    \/ EnterScope
    \/ Prepare
    \/ Drive
    \/ Complete
    \/ ExitScope
    \/ Del
    \/ Resume

SpecLifecycle == Init /\ [][NextLifecycle]_vars

----------------------------------------------------------------------------
(* Properties.                                                             *)

\* The invocation the handler has just finished, and the path and method of its
\* event.
IsCall == result.op = "call"

Addressed == IsCall /\ get_route_from_event(result.event).exc = NoExc

EventPath == get_route_from_event(result.event).path

EventMethod == get_route_from_event(result.event).method

\* The envelope of a recovered failure: no exception leaves the handler, and the
\* statusCode and body are the given texts.
Recovered(status, body) ==
    /\ result.out.raised = "none"
    /\ result.out.envelope.statusCode = Str(status)
    /\ result.out.envelope.body = Str(body)

\* C1: an invocation addressed to a registered (path, method) calls the route
\* function registered for that pair and runs no other; addressed to a path with
\* no route it returns 404 {"detail":"Not Found"}; addressed to a path that has
\* routes, none for the method, it returns 405 {"detail":"Method Not Allowed"};
\* in both failures no route function is called or run.
C1_Routing ==
    Addressed =>
        /\ RouteExists(routes, EventPath, EventMethod) =>
              /\ Len(result.out.called) = 1
              /\ result.out.called[1].func = routes[EventPath][EventMethod].func
              /\ \A i \in DOMAIN result.out.ran :
                    result.out.ran[i] = routes[EventPath][EventMethod].func.name
        /\ EventPath \notin DOMAIN routes =>
              /\ Recovered(<<52, 48, 52>>,
                           <<123, 34, 100, 101, 116, 97, 105, 108, 34, 58, 34, 78, 111,
                             116, 32, 70, 111, 117, 110, 100, 34, 125>>)
              /\ result.out.called = <<>> /\ result.out.ran = <<>>
        /\ (EventPath \in DOMAIN routes /\ ~RouteExists(routes, EventPath, EventMethod)) =>
              /\ Recovered(<<52, 48, 53>>,
                           <<123, 34, 100, 101, 116, 97, 105, 108, 34, 58, 34, 77, 101,
                             116, 104, 111, 100, 32, 78, 111, 116, 32, 65, 108, 108, 111,
                             119, 101, 100, 34, 125>>)
              /\ result.out.called = <<>> /\ result.out.ran = <<>>

\* C1, witness: a path has routes to two different functions, one per method, and
\* an invocation has run the one registered for its method.
C1_Witness ==
    /\ Addressed
    /\ RouteExists(routes, EventPath, EventMethod)
    /\ \E m \in DOMAIN routes[EventPath] :
          routes[EventPath][m].func.name # routes[EventPath][EventMethod].func.name
    /\ result.out.ran = <<routes[EventPath][EventMethod].func.name>>

\* C2: a registration for a (path, method) that has a route raises ValueError,
\* returns nothing and leaves the route table as it was; and no step ever changes
\* or removes a route, so the first function and status code stay the ones
\* dispatched to.
C2_Conflict ==
    [][/\ (result'.op = "register" /\ RouteExists(routes, result'.path, result'.method))
          => (result'.raised = "ValueError" /\ IsNone(result'.returned)
              /\ routes' = routes)
       /\ \A path \in DOMAIN routes : \A method \in DOMAIN routes[path] :
             RouteExists(routes', path, method)
             /\ routes'[path][method] = routes[path][method]]_vars

\* C2, witness: a second registration of a pair, with another function than the
\* one of its route, has raised ValueError.
C2_Witness ==
    /\ result.op = "register"
    /\ result.raised = "ValueError"
    /\ routes[result.path][result.method].func.name # result.func.name

\* An invocation that returned an envelope.
HasEnvelope == IsCall /\ result.out.raised = "none"

StatusCodeIs(status) == result.out.envelope.statusCode = Str(status)

\* The route function of the invocation returned (it neither raised nor timed out).
FuncReturned == HasEnvelope /\ result.beh.kind = "return"

\* The 200 of the finalized response was set by nobody: the route was registered
\* without a status code, the route function left the injected response's status
\* alone and returned no Response of its own.
Default200 ==
    /\ IsNone(declared[<<EventPath, EventMethod>>])
    /\ IsNone(result.beh.mut.status_code)
    /\ result.beh.value.t # "Response"

\* C3, as claimed: a response without content and with status 200 becomes a 204
\* when the 200 is the route's default, and only then: never when the 200 was given
\* at registration, assigned by the route function or carried by a returned Response.
C3_OnlyDefault200 ==
    (FuncReturned /\ IsNone(result.out.final.content)
     /\ result.out.final.status_code = 200)
        => (StatusCodeIs(<<50, 48, 52>>) <=> Default200)

\* C3, amended: a response without content and with status 200 becomes a 204
\* however the 200 was set; every other response keeps its status code.
C3_Every200 ==
    HasEnvelope =>
        IF IsNone(result.out.final.content) /\ result.out.final.status_code = 200
        THEN StatusCodeIs(<<50, 48, 52>>)
        ELSE StatusCodeIs(IntStr(result.out.final.status_code))

\* C3, witness: a route registered with status_code=200 whose function returned
\* nothing has answered 204.
C3_Witness ==
    /\ FuncReturned
    /\ declared[<<EventPath, EventMethod>>] = IntV(200)
    /\ IsNone(result.beh.value)
    /\ StatusCodeIs(<<50, 48, 52>>)

\* The route function of the invocation raised an HTTPException.
RaisedHTTP ==
    IsCall /\ result.beh.kind = "raise" /\ result.beh.exc.cls = "HTTPException"

DetailBody(detail) == dumps(Dict(<<<<TxtDetail, detail>>>>))

\* C4, as claimed: HTTPException(C, D) yields statusCode str(C) and the body
\* {"detail": D} for every given D, {"detail": <reason phrase of C>} when no detail
\* is given.
C4_EveryDetail ==
    RaisedHTTP =>
        Recovered(IntStr(result.beh.exc.status_code),
                  DetailBody(IF IsNone(result.beh.exc.detail)
                             THEN get_status_message(result.beh.exc.status_code)
                             ELSE result.beh.exc.detail))

\* C4, amended: HTTPException(C, D) yields statusCode str(C) and the body
\* {"detail": D} when D is a true value, and {"detail": <reason phrase of C>} when
\* no detail is given or D is a false value such as the empty string.
C4_TrueDetail ==
    RaisedHTTP =>
        Recovered(IntStr(result.beh.exc.status_code),
                  DetailBody(IF Truthy(result.beh.exc.detail)
                             THEN result.beh.exc.detail
                             ELSE get_status_message(result.beh.exc.status_code)))

\* C4, witness: an HTTPException(400, "") has been answered with the reason phrase.
C4_Witness ==
    /\ RaisedHTTP
    /\ result.beh.exc.detail = Str(<<>>)
    /\ result.beh.exc.status_code = 400
    /\ result.out.envelope.body = Str(DetailBody(Str(TxtBadRequest)))

\* An invocation that ended with an exception leaving the handler.
Faulted == IsCall /\ result.out.raised # "none"

\* The flushed record is the one of an unrecovered failure.
LogCritical ==
    /\ {"status_code", "level", "error_detail"} \subseteq DOMAIN result.out.log
    /\ result.out.log["status_code"] = 500
    /\ result.out.log["level"] = "critical"
    /\ result.out.log["error_detail"].t = "str"
    /\ Len(result.out.log["error_detail"].v) > 0

\* C5, as claimed: every invocation that ends with an exception leaving the
\* handler, an unsupported event included, returns no envelope and has flushed a
\* record with status 500, level critical and a diagnostic trace.
C5_EveryFault ==
    Faulted => (result.out.envelope = None /\ result.out.scope /\ LogCritical)

\* C5, amended: an exception raised inside the logging scope and not recovered
\* (from the route function, a timeout, the call of the route function, a missing
\* request id) returns no envelope and has flushed a record with status 500, level
\* critical and a diagnostic trace; an unsupported event raises before the logging
\* scope is opened, so no record is flushed for it.
C5_FaultInScope ==
    Faulted =>
        /\ result.out.envelope = None
        /\ IF get_route_from_event(result.event).exc = NoExc
           THEN result.out.scope /\ LogCritical
           ELSE ~result.out.scope /\ result.out.log = EmptyDict

\* C5, witness: a route function has timed out and the record is flushed.
C5_Witness ==
    Faulted /\ result.out.raised = "TimeoutError" /\ result.out.scope /\ LogCritical

\* The call of the route function raised a validation error.
ValidationFailed == IsCall /\ result.out.exception.cls = "ValidationError"

\* C6: a validation error raised by the call of the route function is answered
\* 422 with the body {"detail": <errors>}; the record has status_code 422, level
\* warning and, as error_detail, the serialization of the errors of the body; the
\* body of the route function does not run.
C6_Validation ==
    ValidationFailed =>
        /\ result.out.raised = "none"
        /\ StatusCodeIs(<<52, 50, 50>>)
        /\ {"status_code", "level", "error_detail"} \subseteq DOMAIN result.out.log
        /\ result.out.log["status_code"] = 422
        /\ result.out.log["level"] = "warning"
        /\ result.out.log["error_detail"] = Str(dumps(result.out.exception.errors))
        /\ result.out.envelope.body =
              Str(<<123, 34, 100, 101, 116, 97, 105, 108, 34, 58>>
                  \o result.out.log["error_detail"].v \o <<125>>)
        /\ result.out.ran = <<>>

\* C6, witness: a body with a text where h2 wants an int has been answered 422.
C6_Witness ==
    /\ ValidationFailed
    /\ result.out.called[1].func.name = "h2"
    /\ result.event["body"] = Dict(<<<<TxtValue, Str(TxtGet)>>>>)
    /\ StatusCodeIs(<<52, 50, 50>>)

\* The names of the parameters of a route function declared with a subclass of cls.
Flagged(name, cls) ==
    {Signature(name)[i].name :
        i \in {j \in DOMAIN Signature(name) : IsSubclass(Signature(name)[j].annotation, cls)}}

BodyKeys == IF result.event["body"].t = "dict" THEN DictKeys(result.event["body"].v) ELSE {}

CalledName == result.out.called[1].func.name

CalledKwargs == result.out.called[1].kwargs

\* C7: in the call of the route function, each parameter declared as a Request
\* gets the Request of the invocation and each parameter declared as a Response
\* gets the response seeded with the status code of the route, whatever the body
\* holds under that name; the other keys of a mapping body are passed with their
\* values; a body that is no mapping adds no keyword argument.
C7_Injection ==
    (IsCall /\ Len(result.out.called) = 1) =>
        /\ DictKeys(CalledKwargs)
              = Flagged(CalledName, "Request") \cup Flagged(CalledName, "Response")
                \cup BodyKeys
        /\ \A n \in Flagged(CalledName, "Request") :
              DictGet(CalledKwargs, n) = Request(result.event, Context)
        /\ \A n \in Flagged(CalledName, "Response") :
              DictGet(CalledKwargs, n)
                  = JSONResponse(None, routes[EventPath][EventMethod].status_code)
        /\ \A k \in BodyKeys \ (Flagged(CalledName, "Request")
                                \cup Flagged(CalledName, "Response")) :
              DictGet(CalledKwargs, k) = DictGet(result.event["body"].v, k)

\* C7, witness: h1 has run for an event whose body has the keys "request" and
\* "response".
C7_Witness ==
    /\ IsCall
    /\ result.out.ran = <<"h1">>
    /\ {TxtRequest, TxtResponse} \subseteq BodyKeys

\* A registration that stored a route.
Registered == result.op = "register" /\ result.raised = "none"

\* C8, as claimed: a registration returns the very function it was given, with or
\* without the validation library.
C8_SameFunction == Registered => result.returned = result.func

\* C8, amended: a registration returns the function the route holds: the function
\* it was given when the validation library is not there, and the validating
\* wrapper around it, another callable, when it is.
C8_RouteFunction ==
    Registered =>
        /\ result.returned = routes[result.path][result.method].func
        /\ ~validate_arguments => result.returned = result.func
        /\ validate_arguments =>
              (result.returned = ValidateArguments(result.func)
               /\ result.returned # result.func)

\* C8, witness: with the validation library, a PATCH registration has returned
\* the wrapper.
C8_Witness ==
    /\ Registered
    /\ validate_arguments
    /\ result.method = "PATCH"
    /\ result.returned.validated

\* text has sub as a substring.
Contains(text, sub) ==
    \E i \in 1..(Len(text) - Len(sub) + 1) : SubSeq(text, i, i + Len(sub) - 1) = sub

\* The invocation of result, had its HTTPException carried error_detail.
WithErrorDetail(error_detail) ==
    call(routes, result.event, Context,
         [kind |-> "raise", mut |-> NoMutation,
          exc |-> HTTPException(result.beh.exc.status_code, result.beh.exc.detail,
                                error_detail)])

\* C9: the envelope of an HTTPException is the same for every error_detail it
\* could carry; a true error_detail is in the record, and it is not in the body
\* unless it is the public detail too.
C9_Independent ==
    RaisedHTTP =>
        /\ \A e \in {None, Str(TxtSecret), Str(TxtCustom)} :
              WithErrorDetail(e).envelope = result.out.envelope
        /\ Truthy(result.beh.exc.error_detail) =>
              /\ "error_detail" \in DOMAIN result.out.log
              /\ result.out.log["error_detail"] = result.beh.exc.error_detail
              /\ result.beh.exc.error_detail # result.beh.exc.detail =>
                    ~Contains(result.out.envelope.body.v, result.beh.exc.error_detail.v)

\* C9, witness: an HTTPException with an error_detail and no public detail has been
\* answered.
C9_Witness ==
    /\ RaisedHTTP
    /\ result.beh.exc.error_detail = Str(TxtSecret)
    /\ IsNone(result.beh.exc.detail)
    /\ result.out.log["error_detail"] = Str(TxtSecret)

\* The number of octets of a rendered payload on the wire.
WireLen(rendered) ==
    IF rendered.t = "bytes" THEN Len(rendered.v) ELSE Len(Utf8(rendered.v))

\* C10, the content-type half: the header is the media type of the response when
\* one is set, and is not set otherwise.
ContentTypeSet ==
    IF IsNone(result.out.final.media_type)
    THEN "content-type" \notin DOMAIN result.out.envelope.headers
    ELSE /\ "content-type" \in DOMAIN result.out.envelope.headers
         /\ result.out.envelope.headers["content-type"] = result.out.final.media_type

\* C10: when a content is serialized, the content-length header is the number of
\* octets of the payload on the wire, text or binary, and the content-type header
\* is set exactly when the response has a media type.
C10_ContentLength ==
    (HasEnvelope /\ ~IsNone(result.out.rendered)) =>
        /\ "content-length" \in DOMAIN result.out.envelope.headers
        /\ result.out.envelope.headers["content-length"]
              = Str(IntStr(WireLen(result.out.rendered)))
        /\ ContentTypeSet

\* C10, the part the code keeps: the content-length header is len() of the
\* rendered payload, and the content-type half.
C10_PyLen ==
    (HasEnvelope /\ ~IsNone(result.out.rendered)) =>
        /\ result.out.envelope.headers["content-length"]
              = Str(IntStr(Len(result.out.rendered.v)))
        /\ ContentTypeSet

\* The event of the invocation is addressed to a registered route.
ToRoute ==
    /\ Addressed
    /\ EventPath \in DOMAIN routes
    /\ EventMethod \in DOMAIN routes[EventPath]

\* The event has a request identifier, in its headers or in its request context.
HasRequestId ==
    \/ "x-request-id" \in DOMAIN result.event["headers"]
    \/ "requestId" \in DOMAIN result.event["requestContext"]

\* C11: an event addressed to a registered route is not turned into a fault by
\* the absence of a request identifier (the invocation does not raise KeyError),
\* and the envelope has the x-request-id header exactly when the record holds a
\* request_id.
C11_BestEffort ==
    ToRoute =>
        /\ result.out.raised # "KeyError"
        /\ HasEnvelope =>
              ("x-request-id" \in DOMAIN result.out.envelope.headers
                  <=> "request_id" \in DOMAIN result.out.log)

\* C11, the part the code keeps: with a request identifier in the event, no
\* invocation raises KeyError, the header is there exactly when the record holds
\* a request_id and it is that request_id; without one, an invocation whose call of
\* the route function did not raise (ValidationError, TypeError) raises KeyError
\* before the route function is driven.
C11_WhenAvailable ==
    ToRoute =>
        /\ HasRequestId => result.out.raised # "KeyError"
        /\ HasEnvelope =>
              /\ "x-request-id" \in DOMAIN result.out.envelope.headers
                    <=> "request_id" \in DOMAIN result.out.log
              /\ "request_id" \in DOMAIN result.out.log =>
                    result.out.envelope.headers["x-request-id"]
                        = result.out.log["request_id"]
        /\ (~HasRequestId /\ result.out.exception.cls \notin {"ValidationError", "TypeError"}) =>
              (result.out.raised = "KeyError" /\ result.out.ran = <<>>)

\* The route function of the invocation returned.
FuncReturnedValue == IsCall /\ result.beh.kind = "return"

\* The status code of the seeded response once the route function returned.
SeededStatus ==
    IF IsNone(result.beh.mut.status_code)
    THEN routes[EventPath][EventMethod].status_code
    ELSE result.beh.mut.status_code.v

\* The headers of the seeded response once the route function returned.
SeededHeaders ==
    IF result.beh.mut.header THEN SetItem(EmptyDict, "test", Str(TxtTest)) ELSE EmptyDict

\* The invocation of result, had its route function changed the injected response
\* as mut says.
WithMutation(mut) ==
    call(routes, result.event, Context, [result.beh EXCEPT !.mut = mut])

\* C12: a returned Response is the response of the envelope, whatever the route's
\* status code and whatever the route function did to the injected response; any
\* other returned value, None included, is the content of the seeded JSONResponse,
\* which keeps the status code and the headers the route function gave it (the
\* route's status code when it gave none), and the invocation returns an envelope.
C12_Normalization ==
    FuncReturnedValue =>
        /\ result.out.raised = "none"
        /\ HasEnvelope
        /\ IF result.beh.value.t = "Response"
           THEN /\ result.out.final = result.beh.value
                /\ result.out.envelope
                      = prepare_response(result.beh.value, result.out.log).envelope
                /\ \A mut \in Mutations :
                      WithMutation(mut).envelope = result.out.envelope
           ELSE /\ result.out.final.content = result.beh.value
                /\ result.out.final.cls = "JSONResponse"
                /\ result.out.final.status_code = SeededStatus
                /\ result.out.final.headers = SeededHeaders
                /\ ("test" \in DOMAIN result.out.envelope.headers) <=> result.beh.mut.header
                /\ result.out.envelope.statusCode
                      = Str(IntStr(IF IsNone(result.beh.value) /\ SeededStatus = 200
                                   THEN 204 ELSE SeededStatus))
                /\ (IsNone(result.beh.value) /\ SeededStatus < 400) =>
                      IsNone(result.out.envelope.body)

\* C12, witness: on a route registered with status code 202, a route function has
\* returned a binary Response with status code 200, and the envelope is 200.
C12_Witness ==
    /\ FuncReturnedValue
    /\ result.beh.value.t = "Response"
    /\ result.beh.value.content.t = "bytes"
    /\ routes[EventPath][EventMethod].status_code = 202
    /\ StatusCodeIs(<<50, 48, 48>>)
    /\ result.out.envelope.isBase64Encoded

\* An HTTPException, raised by the route function or by the route lookup, has been
\* turned into an envelope.
RecoveredHTTP ==
    IsCall /\ result.out.raised = "none" /\ result.out.exception.cls = "HTTPException"

\* C13, as claimed: the record of a recovered HTTPException has error_detail
\* exactly when the exception carries a diagnostic detail, and it is that one.
C13_OnlyDiagnostic ==
    RecoveredHTTP =>
        IF Truthy(result.out.exception.error_detail)
        THEN /\ "error_detail" \in DOMAIN result.out.log
             /\ result.out.log["error_detail"] = PyStr(result.out.exception.error_detail)
        ELSE "error_detail" \notin DOMAIN result.out.log

\* C13, amended: the record of a recovered HTTPException has, as error_detail,
\* the diagnostic detail when the exception carries a true one, else the public
\* detail when it carries a true one, and no error_detail when it carries neither.
C13_DiagnosticOrPublic ==
    RecoveredHTTP =>
        IF Truthy(result.out.exception.error_detail)
        THEN /\ "error_detail" \in DOMAIN result.out.log
             /\ result.out.log["error_detail"] = PyStr(result.out.exception.error_detail)
        ELSE IF Truthy(result.out.exception.detail)
             THEN /\ "error_detail" \in DOMAIN result.out.log
                  /\ result.out.log["error_detail"] = PyStr(result.out.exception.detail)
             ELSE "error_detail" \notin DOMAIN result.out.log

\* C13, witness: an HTTPException with a public detail and no diagnostic detail
\* has been recovered, and the record has the public detail as error_detail.
C13_Witness ==
    /\ RecoveredHTTP
    /\ IsNone(result.out.exception.error_detail)
    /\ result.out.exception.detail = Str(TxtCustom)
    /\ "error_detail" \in DOMAIN result.out.log
    /\ result.out.log["error_detail"] = Str(TxtCustom)

\* The thread is in an invocation of the handler.
InInvocation == pc \in {"logger", "try", "run", "driving", "exit"}

\* Every open logging scope and every task the loop holds belong to the
\* invocation (or the run_async call) in progress, and there is at most one of
\* each; between invocations there is none.
OneAtATime ==
    /\ Len(scopes) <= 1
    /\ Cardinality(loop) <= 1
    /\ \A i \in DOMAIN scopes : scopes[i] = invocation.n /\ pc \in {"try", "run", "driving", "exit"}
    /\ \A task \in loop :
          \/ task = CallTask(invocation.n) /\ pc = "driving"
          \/ task = SetupTask /\ pc = "setup"
    /\ pc \in {"idle", "deleted"} => (scopes = <<>> /\ loop = {})
    /\ InInvocation => (invocation.event # NoEvent /\ result.op = "idle")

\* A step inside an invocation leaves the route table alone and starts no other
\* invocation; an invocation starts only when no scope is open, no task is held
\* and the thread is in no other call.
NoReentry ==
    /\ InInvocation => (routes' = routes /\ invocation'.n = invocation.n)
    /\ invocation'.n # invocation.n =>
          (pc = "idle" /\ scopes = <<>> /\ loop = {} /\ invocation'.n = invocation.n + 1)

EnteredUntilTeardown ==
    /\ \A c \in Contexts :
          IF pc # "deleted"
          THEN /\ contexts[c].exits = 0
               /\ contexts[c].state \in {"new", "entered", "failed"}
               /\ Held(exit_stack, c) = (IF contexts[c].state = "entered" THEN 1 ELSE 0)
          ELSE /\ contexts[c].state \in {"new", "failed", "exited"}
               /\ contexts[c].exits = (IF contexts[c].state = "exited" THEN 1 ELSE 0)
    /\ pc = "deleted" => exit_stack = <<>>
    /\ (teardown # None) <=> (pc = "deleted")
    /\ teardown # None => ~teardown.propagated

\* Only enter_async_context and the deletion of the handler change the exit stack
\* and the contexts.
OnlySetupAndTeardown ==
    (exit_stack' # exit_stack \/ contexts' # contexts) =>
        /\ pc = "idle"
        /\ pc' = "deleted" \/ result'.op = "enter_async_context"

====
